---- MODULE Spec2Model ----
(***************************************************************************)
(* Model of main.py: the User value type and its distance, the DB wrapper  *)
(* around the chroma collection (upsert, generate_id, get, search) and the *)
(* three streamlit pages (register, search, matching) run by concurrent    *)
(* browser sessions against one persistent collection.                     *)
(***************************************************************************)
EXTENDS Integers, Sequences, FiniteSets, TLC

VARIABLES collection, session_state, pc, ret

vars == <<collection, session_state, pc, ret>>

(* ------------------------------ bounds --------------------------------- *)

\* range(1, 1000) of generate_id, scaled down: the pool is 1..PoolMax
PoolMax == 2
\* concurrent browser sessions
NumSessions == 2
\* identifiers the DB operations are called with directly: 1..MaxUpsertId
MaxUpsertId == 3
\* vectors given to User.distance directly: length 0..MaxLen, values 0..MaxVal
MaxLen == 2
MaxVal == 2

(* --------------------------- program constants ------------------------- *)

\* n_results of the collection.query call
N_RESULTS == 2
\* the count below which search does not query
MIN_COUNT_One == N_RESULTS - 1
MIN_COUNT == 2
\* the distance returned with None
NO_DISTANCE == -1
\* st.session_state["user_id"] before registration
UNREGISTERED == 0
\* "無回答", the comment of a User built with an empty comment
NoAnswer == "mukaitou"

\* st.session_state["questions"], the questionnaire of questions.json: one
\* entry per question, the number of its choices
questions == <<3>>
NumQuestions == Len(questions)

(* ----------------------------- Python values --------------------------- *)

\* Optional values: None is the empty tuple, a present value a 1-tuple
None == <<>>
Some(x) == <<x>>

Sessions == 1..NumSessions
Pool == 1..PoolMax
\* the values Question.choice_index gives for question i
ChoiceIndexes(i) == 0..(questions[i] - 1)
\* the full answer lists
AllIndexes == UNION {ChoiceIndexes(i) : i \in 1..NumQuestions}
AnswerLists ==
    {c \in [1..NumQuestions -> AllIndexes] : \A i \in 1..NumQuestions : c[i] \in ChoiceIndexes(i)}

Min(x, y) == IF x <= y THEN x ELSE y

RECURSIVE SumSeq(_)
SumSeq(s) == IF s = <<>> THEN 0 ELSE s[1] + SumSeq(Tail(s))

\* str(n) for n >= 0: the decimal digits
RECURSIVE Str(_)
Str(n) == IF n < 10 THEN <<n>> ELSE Str(n \div 10) \o <<n % 10>>

\* int == str in Python: an int never equals a str
PyIntEqStr(i, s) == FALSE

\* a float32 holds every integer up to 2^24 exactly; above, round to even
Float32(n) ==
    IF n <= 16777216 THEN n
    ELSE IF n % 2 = 0 THEN n
    ELSE IF ((n - 1) \div 2) % 2 = 0 THEN n - 1 ELSE n + 1

(* --------------------------------- User -------------------------------- *)

User(name, choices, comment) ==
    [name |-> name, choices |-> choices,
     comment |-> IF comment # "" THEN comment ELSE NoAnswer]

\* zip stops at the shorter of the two lists
distance(self, user) ==
    SumSeq([i \in 1..Min(Len(self.choices), Len(user.choices)) |->
              (self.choices[i] - user.choices[i]) * (self.choices[i] - user.choices[i])])

(* ---------------------------------- DB --------------------------------- *)

\* an insert that leaves an entry already stored under the key as it is
upsert_AddOnly(coll, user_id, user) ==
    LET key == Str(user_id)
        entry == [embedding |-> [i \in 1..Len(user.choices) |-> user.choices[i]],
                  metadata |-> [name |-> user.name],
                  document |-> user.comment]
    IN [k \in (DOMAIN coll) \cup {key} |-> IF k \in DOMAIN coll THEN coll[k] ELSE entry]

\* the collection maps a key (a str) to its embedding, metadata and document
upsert(coll, user_id, user) ==
    LET key == Str(user_id)
        entry == [embedding |-> [i \in 1..Len(user.choices) |-> Float32(user.choices[i])],
                  metadata |-> [name |-> user.name],
                  document |-> user.comment]
    IN [k \in (DOMAIN coll) \cup {key} |-> IF k = key THEN entry ELSE coll[k]]

\* collection.peek(limit=sys.maxsize)["ids"]
peek_ids(coll) == DOMAIN coll

available_ids(coll) ==
    {i \in Pool : \A k \in peek_ids(coll) : ~PyIntEqStr(i, k)}

\* random.choice raises IndexError on an empty tuple
generate_id(coll) ==
    IF available_ids(coll) = {}
    THEN {[kind |-> "IndexError", id |-> UNREGISTERED]}
    ELSE {[kind |-> "id", id |-> i] : i \in available_ids(coll)}

get(coll, key) ==
    IF key \notin DOMAIN coll THEN None
    ELSE Some(User(coll[key].metadata.name, coll[key].embedding, coll[key].document))

\* squared L2, the collection's distance
l2(u, v) == SumSeq([i \in 1..Len(u) |-> (u[i] - v[i]) * (u[i] - v[i])])

\* collection.query: the n nearest keys by ascending distance; the order of
\* entries at equal distance is the engine's
query(coll, emb, n) ==
    LET m == Min(n, Cardinality(DOMAIN coll))
        d(k) == l2(emb, coll[k].embedding)
    IN {r \in [1..m -> DOMAIN coll] :
          /\ \A i, j \in 1..m : i < j => r[i] # r[j] /\ d(r[i]) <= d(r[j])
          /\ \A k \in DOMAIN coll :
                (\A i \in 1..m : r[i] # k) => \A i \in 1..m : d(r[i]) <= d(k)}

\* result[...][0][0], the nearest entry itself
ResultIndex_First == N_RESULTS - 1
\* result[...][0][1], counted from 1
ResultIndex == 2

\* a result list shorter than ResultIndex raises IndexError
search(coll, user) ==
    IF Cardinality(DOMAIN coll) < MIN_COUNT
    THEN {[kind |-> "ok", user |-> None, distance |-> NO_DISTANCE,
           queried |-> FALSE, key |-> None]}
    ELSE {IF Len(r) < ResultIndex
          THEN [kind |-> "IndexError", user |-> None, distance |-> NO_DISTANCE,
                queried |-> TRUE, key |-> None]
          ELSE [kind |-> "ok",
                user |-> Some(User(coll[r[ResultIndex]].metadata.name,
                                   coll[r[ResultIndex]].embedding,
                                   coll[r[ResultIndex]].document)),
                distance |-> l2(user.choices, coll[r[ResultIndex]].embedding),
                queried |-> TRUE,
                key |-> Some(r[ResultIndex])] : r \in query(coll, user.choices, N_RESULTS)}

(* ------------------------------ sessions ------------------------------- *)

\* the values typed into the nickname and comment widgets
AppNames == {"", "a"}
AppComments == {""}

\* the user-id field of the search form: "" and "01" are no stored key
SearchQueries == {Str(i) : i \in Pool} \cup {<<>>, <<0, 1>>}

\* init_session: the "user" key is not set; None stands for the missing key
InitSession ==
    [name |-> "", choices |-> [i \in 1..NumQuestions |-> None], comment |-> "",
     user_id |-> UNREGISTERED, user |-> None]

\* what the radios can return: a question once answered stays answered
RadioResults(choices) ==
    {c \in [1..NumQuestions -> {None} \cup {Some(v) : v \in AllIndexes}] :
        \A i \in 1..NumQuestions :
            /\ c[i] # None => c[i][1] \in ChoiceIndexes(i)
            /\ choices[i] # None => c[i] # None}

\* the int list held in st.session_state["choices"] once every radio is set
Answers(choices) == [i \in 1..Len(choices) |-> choices[i][1]]

\* st.session_state["user"]: its choices ARE the list st.session_state["choices"]
\* (User.__init__ keeps the reference and register_page assigns into the list)
SessionUser(ss) == User(ss.user[1].name, Answers(ss.choices), ss.user[1].comment)

Init ==
    /\ collection = <<>>
    /\ session_state = [s \in Sessions |-> InitSession]
    /\ pc = [s \in Sessions |-> "idle"]
    /\ ret = [op |-> "init", sess |-> 0, kind |-> "init"]

\* a browser (re)load starts a fresh session: main runs init_session
Reload(s) ==
    /\ pc[s] = "idle"
    /\ session_state[s] # InitSession
    /\ session_state' = [session_state EXCEPT ![s] = InitSession]
    /\ ret' = [op |-> "init_session", sess |-> s, kind |-> "ok"]
    /\ UNCHANGED <<collection, pc>>

Widgets(s, name, choices, comment) ==
    [session_state[s] EXCEPT !.name = name, !.choices = choices, !.comment = comment]

\* register_page, button not pressed
RegisterRerun(s) ==
    /\ pc[s] = "idle"
    /\ \E name \in AppNames, comment \in AppComments,
          choices \in RadioResults(session_state[s].choices) :
          session_state' = [session_state EXCEPT ![s] = Widgets(s, name, choices, comment)]
    /\ ret' = [op |-> "register_page", sess |-> s, kind |-> "rerun"]
    /\ UNCHANGED <<collection, pc>>

\* register_page, button pressed, one of the two alerts
RegisterAlert(s) ==
    /\ pc[s] = "idle"
    /\ \E name \in AppNames, comment \in AppComments,
          choices \in RadioResults(session_state[s].choices) :
          /\ name = "" \/ \E i \in 1..NumQuestions : choices[i] = None
          /\ session_state' = [session_state EXCEPT ![s] = Widgets(s, name, choices, comment)]
          /\ ret' = [op |-> "register_page", sess |-> s,
                     kind |-> IF name = "" THEN "alert_name" ELSE "alert_choices"]
    /\ UNCHANGED <<collection, pc>>

\* register_page, button pressed, up to the call of upsert
RegisterSave(s) ==
    /\ pc[s] = "idle"
    /\ \E name \in AppNames, comment \in AppComments,
          choices \in RadioResults(session_state[s].choices) :
          /\ name # ""
          /\ \A i \in 1..NumQuestions : choices[i] # None
          /\ IF session_state[s].user_id = UNREGISTERED
             THEN \E g \in generate_id(collection) :
                    /\ ret' = [op |-> "generate_id", sess |-> s, kind |-> g.kind, id |-> g.id]
                    /\ IF g.kind = "id"
                       THEN /\ session_state' = [session_state EXCEPT ![s] =
                                   [Widgets(s, name, choices, comment) EXCEPT !.user_id = g.id]]
                            /\ pc' = [pc EXCEPT ![s] = "upsert"]
                       ELSE /\ session_state' = [session_state EXCEPT ![s] =
                                   Widgets(s, name, choices, comment)]
                            /\ pc' = pc
             ELSE /\ session_state' = [session_state EXCEPT ![s] =
                         Widgets(s, name, choices, comment)]
                  /\ pc' = [pc EXCEPT ![s] = "upsert"]
                  /\ ret' = [op |-> "register_page", sess |-> s, kind |-> "update"]
    /\ UNCHANGED collection

\* the rest of the save: the User is built, upserted and kept in the session
UpsertOk(s) ==
    /\ pc[s] = "upsert"
    /\ LET ss == session_state[s]
           user == User(ss.name, Answers(ss.choices), ss.comment)
       IN /\ collection' = upsert(collection, ss.user_id, user)
          /\ session_state' = [session_state EXCEPT ![s].user =
                                  Some([name |-> user.name, comment |-> user.comment])]
          /\ ret' = [op |-> "upsert", sess |-> s, kind |-> "ok",
                     id |-> ss.user_id, user |-> user]
    /\ pc' = [pc EXCEPT ![s] = "idle"]

\* the collection raises: the script run ends at the call of upsert
UpsertFail(s) ==
    /\ pc[s] = "upsert"
    /\ LET ss == session_state[s]
           user == User(ss.name, Answers(ss.choices), ss.comment)
       IN ret' = [op |-> "upsert", sess |-> s, kind |-> "error",
                  id |-> ss.user_id, user |-> user]
    /\ pc' = [pc EXCEPT ![s] = "idle"]
    /\ UNCHANGED <<collection, session_state>>

\* search_page, button pressed
SearchPage(s) ==
    /\ pc[s] = "idle"
    /\ \E search_query \in SearchQueries :
         LET ss == session_state[s]
             result_user == get(collection, search_query)
         IN ret' =
              IF ss.user_id = UNREGISTERED
              THEN [op |-> "search_page", sess |-> s, kind |-> "alert_register"]
              ELSE IF search_query = <<>>
              THEN [op |-> "search_page", sess |-> s, kind |-> "alert_query"]
              ELSE IF result_user = None
              THEN [op |-> "search_page", sess |-> s, kind |-> "not_found"]
              ELSE IF ss.user = None
              THEN [op |-> "search_page", sess |-> s, kind |-> "KeyError"]
              ELSE [op |-> "search_page", sess |-> s, kind |-> "result",
                    key |-> search_query, user |-> result_user[1],
                    query |-> SessionUser(ss).choices,
                    distance |-> distance(SessionUser(ss), result_user[1])]
    /\ UNCHANGED <<collection, session_state, pc>>

\* matching_page, button pressed
MatchingPage(s) ==
    /\ pc[s] = "idle"
    /\ LET ss == session_state[s]
       IN IF ss.user_id = UNREGISTERED
          THEN ret' = [op |-> "matching_page", sess |-> s, kind |-> "alert_register"]
          ELSE IF ss.user = None
          THEN ret' = [op |-> "matching_page", sess |-> s, kind |-> "KeyError"]
          ELSE \E r \in search(collection, SessionUser(ss)) :
                 ret' = [op |-> "search", sess |-> s, kind |-> r.kind,
                         query |-> SessionUser(ss).choices, result |-> r]
    /\ UNCHANGED <<collection, session_state, pc>>

Next ==
    \E s \in Sessions :
        \/ Reload(s)
        \/ RegisterRerun(s)
        \/ RegisterAlert(s)
        \/ RegisterSave(s)
        \/ UpsertOk(s)
        \/ UpsertFail(s)
        \/ SearchPage(s)
        \/ MatchingPage(s)

Spec == Init /\ [][Next]_vars

(* ---------------- the DB operations called directly --------------------- *)

\* the (name, comment) pairs of the User objects given to the DB
DBFields == {<<"a", "">>, <<"b", "c">>}
UpsertIds == 1..MaxUpsertId

\* the User objects of the questionnaire's dimension
DBUsers ==
    {User(f[1], ch, f[2]) : f \in DBFields, ch \in AnswerLists}

DBUpsert ==
    \E user_id \in UpsertIds, user \in DBUsers :
        /\ collection' = upsert(collection, user_id, user)
        /\ ret' = [op |-> "upsert", sess |-> 0, kind |-> "ok", id |-> user_id, user |-> user]
        /\ UNCHANGED <<session_state, pc>>

DBGenerateId ==
    \E g \in generate_id(collection) :
        /\ ret' = [op |-> "generate_id", sess |-> 0, kind |-> g.kind, id |-> g.id]
        /\ UNCHANGED <<collection, session_state, pc>>

DBGet ==
    \E user_id \in UpsertIds :
        /\ ret' = [op |-> "get", sess |-> 0, kind |-> "ok", id |-> user_id,
                   result |-> get(collection, Str(user_id))]
        /\ UNCHANGED <<collection, session_state, pc>>

DBSearch ==
    \E user \in DBUsers : \E r \in search(collection, user) :
        /\ ret' = [op |-> "search", sess |-> 0, kind |-> r.kind,
                   query |-> user.choices, result |-> r]
        /\ UNCHANGED <<collection, session_state, pc>>

NextDB == DBUpsert \/ DBGenerateId \/ DBGet \/ DBSearch

SpecDB == Init /\ [][NextDB]_vars

(* ------------------- User.distance called directly --------------------- *)

Vectors == UNION {[1..n -> 0..MaxVal] : n \in 0..MaxLen}

DistanceCall ==
    \E a \in Vectors, b \in Vectors :
        /\ ret' = [op |-> "distance", sess |-> 0, kind |-> "value", a |-> a, b |-> b,
                   value |-> distance(User("a", a, ""), User("b", b, ""))]
        /\ UNCHANGED <<collection, session_state, pc>>

NextDistance == DistanceCall

SpecDistance == Init /\ [][NextDistance]_vars

(* ------------------------------- claims -------------------------------- *)

Stored == DOMAIN collection
Registered(s) == session_state[s].user_id # UNREGISTERED

\* C1: generate_id never returns an identifier that is a key of the store.
C1_AllocatorFresh ==
    (ret.op = "generate_id" /\ ret.kind = "id") => Str(ret.id) \notin Stored

\* C2: no two sessions that have completed a registration hold the same
\* identifier: a first-time save never lands on another participant's entry.
C2_UniqueIdentifiers ==
    \A s, t \in Sessions :
        (s # t /\ Registered(s) /\ Registered(t)
           /\ session_state[s].user # None /\ session_state[t].user # None)
        => session_state[s].user_id # session_state[t].user_id

\* C3: with every identifier of the pool a key of the store, generate_id
\* ends in PoolExhausted: no identifier and no IndexError.
C3_PoolExhausted ==
    (ret.op = "generate_id" /\ \A i \in Pool : Str(i) \in Stored)
    => ret.kind = "PoolExhausted"

\* C4: distance of two vectors of different lengths fails with
\* DimensionMismatch and returns no number.
C4_DimensionMismatch ==
    (ret.op = "distance" /\ Len(ret.a) # Len(ret.b)) => ret.kind = "DimensionMismatch"

IsMin(d, S) == d \in S /\ \A x \in S : d <= x

\* the distances from the query of the last search to the entries other than own
OtherDistances(own) ==
    {l2(ret.query, collection[k].embedding) : k \in Stored \ {own}}

\* own is the entry of the record the last search was called with
QueriedAs(own) ==
    /\ ret.op = "search"
    /\ Cardinality(Stored) >= 2
    /\ own \in Stored
    /\ collection[own].embedding = ret.query

\* no other entry has the embedding of own
NoTwin(own) ==
    \A k \in Stored \ {own} : collection[k].embedding # collection[own].embedding

\* C5 as stated: with at least 2 entries and the querying record stored, search
\* returns an entry other than the querier's own, at the minimum distance over
\* the other entries, also when another entry has an identical embedding.
C5_NearestOtherAlways ==
    \A own \in Stored :
        QueriedAs(own) =>
            /\ ret.kind = "ok" /\ ret.result.key # None
            /\ ret.result.key[1] # own
            /\ ret.result.user = get(collection, ret.result.key[1])
            /\ IsMin(ret.result.distance, OtherDistances(own))

\* C5 amended: with at least 2 entries and the querying record stored, search
\* returns a stored entry at the minimum distance over the entries other than
\* the querier's own; the entry is another one than the querier's own whenever
\* no other entry has an embedding identical to the querier's.
C5_NearestOther ==
    \A own \in Stored :
        QueriedAs(own) =>
            /\ ret.kind = "ok" /\ ret.result.key # None
            /\ ret.result.user = get(collection, ret.result.key[1])
            /\ IsMin(ret.result.distance, OtherDistances(own))
            /\ NoTwin(own) => ret.result.key[1] # own

C5_Witness ==
    /\ ret.op = "search"
    /\ \E own \in Stored :
          /\ QueriedAs(own) /\ NoTwin(own)
          /\ Cardinality(OtherDistances(own)) >= 2
          /\ ret.result.key # None /\ ret.result.key[1] # own
          /\ ret.result.distance > 0

\* C6: with fewer than 2 entries search returns None and issues no query.
C6_FewerThanTwo ==
    (ret.op = "search" /\ Cardinality(Stored) < 2)
    => (ret.kind = "ok" /\ ret.result.user = None /\ ~ret.result.queried)

C6_Witness ==
    /\ ret.op = "search"
    /\ Cardinality(Stored) = 1
    /\ ret.result.user = None

\* C7: after upsert(id, r), get(id) gives r's name, choices and comment whatever
\* was stored under id before, and get of every other identifier gives what it
\* gave before; no other operation changes the store.
C7_UpsertThenGet ==
    [][IF ret'.op = "upsert" /\ ret'.kind = "ok"
       THEN /\ get(collection', Str(ret'.id)) = Some(ret'.user)
            /\ \A k \in Stored \ {Str(ret'.id)} :
                  get(collection', k) = get(collection, k)
       ELSE collection' = collection]_vars

C7_Witness ==
    /\ ret.op = "upsert" /\ ret.kind = "ok"
    /\ Cardinality(Stored) >= 2
    /\ ret.user.comment = NoAnswer
    /\ get(collection, Str(ret.id)) = Some(ret.user)

\* C8: a session's identifier, once allocated, never changes, and a first save
\* whose upsert fails leaves the session without an identifier.
C8_AllocatedOnSuccess ==
    [][\A s \in Sessions :
         /\ (Registered(s) /\ ~(ret'.op = "init_session" /\ ret'.sess = s))
            => session_state'[s].user_id = session_state[s].user_id
         /\ (pc[s] = "upsert" /\ ret'.op = "upsert" /\ ret'.sess = s
               /\ ret'.kind = "error" /\ session_state[s].user = None)
            => session_state'[s].user_id = UNREGISTERED]_vars

\* C9: a session with user_id # 0 whose script is not running holds a user
\* record and its identifier is a key of the store, so no page reads a missing
\* session user.
C9_RegisteredHasUser ==
    /\ \A s \in Sessions :
          (pc[s] = "idle" /\ Registered(s))
          => /\ session_state[s].user # None
             /\ Str(session_state[s].user_id) \in Stored
    /\ ret.kind # "KeyError"

\* C10: the vector the matching page queries with, and the one the search page
\* measures the distance from, is the embedding stored under the session's
\* user_id.
C10_QueryIsStored ==
    (ret.sess \in Sessions
       /\ (ret.op = "search" \/ (ret.op = "search_page" /\ ret.kind = "result")))
    => /\ Str(session_state[ret.sess].user_id) \in Stored
       /\ collection[Str(session_state[ret.sess].user_id)].embedding = ret.query

====
